---------------------------- MODULE Spec2Model ----------------------------
(***************************************************************************)
(* Model of PyTorch_DQN_Demo.py: the ReplayMemory ring buffer, the         *)
(* epsilon-greedy action selector and the episode loop with its target     *)
(* network synchronisation and checkpoint schedule.                        *)
(*                                                                         *)
(* Two specifications share the variables:                                 *)
(*   SpecMem  a ReplayMemory of any capacity 1..MaxCap driven by arbitrary *)
(*            push and sample calls (the class on its own);                *)
(*   Spec     the script: the training loop of lines 232-296.              *)
(*                                                                         *)
(* Screens are abstracted to the token Screen and reward tensors to the    *)
(* token Reward; Python's None is the token None.  Network parameters are abstracted to the number of     *)
(* optimizer steps that produced them.  Slots of the buffer are numbered   *)
(* from 1 here and from 0 in the source; position keeps the source's       *)
(* 0-based value.                                                          *)
(***************************************************************************)
EXTENDS Integers, Sequences, FiniteSets, TLC

(***************************************************************************)
(* Bounds of the ReplayMemory specification.                               *)
(***************************************************************************)
MaxCap == 2
MaxPushes == 4
MaxSamples == 1

(***************************************************************************)
(* Schedule parameters of the script, scaled down so that the loop can be  *)
(* explored exhaustively.  The source values are BATCH_SIZE = 256          *)
(* (line 134), EPS_DECAY = 200000 (line 138), TARGET_UPDATE = 200          *)
(* (line 139), ReplayMemory(100000) (line 147), num_episodes = 50000       *)
(* (line 232), a plot file every 10 durations (line 184) and a checkpoint  *)
(* every 1000 episodes (line 289).  MaxT caps the length of one episode:   *)
(* the environment ends the episode at step MaxT at the latest.            *)
(***************************************************************************)
BATCH_SIZE == 2
EPS_DECAY == 3
TARGET_UPDATE == 2
MEMORY_CAPACITY == 3
num_episodes == 5
PLOT_EVERY == 2
SAVE_EVERY == 3
MaxT == 2

(***************************************************************************)
(* Program constants.  EPS_START and EPS_END are in hundredths (0.95 and   *)
(* 0.05 in the source).                                                    *)
(***************************************************************************)
EPS_START == 95
EPS_END == 5
NUM_ACTIONS == 2
START_LIVES == 5
LIVES_ALIVE == 4

None == "None"
Screen == "screen"
Reward == "reward"

VARIABLES
    memory,             \* the ReplayMemory object: capacity, memory, position
    pushed,             \* SpecMem: every transition pushed so far, in order
    sampled,            \* number of ReplayMemory.sample calls made so far
    result,             \* SpecMem: the request and outcome of the last sample
    pc,                 \* position of the script
    i_episode,
    t,
    state,
    action,
    reward,
    next_state,
    lives,              \* info['ale.lives'] of the last env.step
    Done,               \* Done of the last env.step
    done,
    steps_done,
    policy_net,
    target_net,
    optimizer,
    episode_durations,
    checkpoints,        \* files written by torch.save: name -> parameters
    plots,              \* files written by plt.savefig
    error,              \* the exception that ended the script, or None
    pushedInEpisode,    \* transitions pushed since the episode began
    terminalInEpisode   \* of these, the ones with next_state None

memVars == <<memory, pushed, sampled, result>>
loopVars == <<pc, i_episode, t, state, action, reward, next_state, lives, Done, done>>
netVars == <<steps_done, policy_net, target_net, optimizer>>
outVars == <<episode_durations, checkpoints, plots, error>>
countVars == <<pushedInEpisode, terminalInEpisode>>
vars == <<memVars, loopVars, netVars, outVars, countVars>>

Min(a, b) == IF a < b THEN a ELSE b

(***************************************************************************)
(* Transition and ReplayMemory (lines 65-85).                              *)
(***************************************************************************)
Transition(s, a, ns, r) == [state |-> s, action |-> a, next_state |-> ns, reward |-> r]

ReplayMemory(capacity) == [capacity |-> capacity, memory |-> <<>>, position |-> 0]

MemLen(mem) == Len(mem.memory)

\* Push with the growth test off by one: the list grows past capacity.
PushOverfill(mem, tr) ==
    LET grown == IF Len(mem.memory) <= mem.capacity
                 THEN Append(mem.memory, None)
                 ELSE mem.memory
    IN  [capacity |-> mem.capacity,
         memory   |-> [grown EXCEPT ![mem.position + 1] = tr],
         position |-> (mem.position + 1) % mem.capacity]

\* Push that wraps position at the current length instead of the capacity.
PushWrapsAtLength(mem, tr) ==
    LET grown == IF Len(mem.memory) < mem.capacity
                 THEN Append(mem.memory, None)
                 ELSE mem.memory
    IN  [capacity |-> mem.capacity,
         memory   |-> [grown EXCEPT ![mem.position + 1] = tr],
         position |-> (mem.position + 1) % Len(grown)]

Push(mem, tr) ==
    LET grown == IF Len(mem.memory) < mem.capacity
                 THEN Append(mem.memory, None)
                 ELSE mem.memory
    IN  [capacity |-> mem.capacity,
         memory   |-> [grown EXCEPT ![mem.position + 1] = tr],
         position |-> (mem.position + 1) % mem.capacity]

\* random.sample(population, k): k distinct positions of the population, in
\* any order; ValueError when k is negative or larger than the population.
DistinctSlots(n, k) ==
    {s \in [1..k -> 1..n] : \A i, j \in 1..k : i # j => s[i] # s[j]}

\* Sample that returns the whole population when asked for more.
SampleClamps(mem, batch_size) ==
    LET k == IF batch_size < 0 THEN 0 ELSE Min(batch_size, Len(mem.memory))
    IN  {[raised |-> FALSE, slots |-> s,
          batch |-> [i \in 1..k |-> mem.memory[s[i]]]] :
             s \in DistinctSlots(Len(mem.memory), k)}

\* Sample that draws with replacement (random.choices).
SampleWithReplacement(mem, batch_size) ==
    IF batch_size < 0 \/ batch_size > Len(mem.memory)
    THEN {[raised |-> TRUE, slots |-> <<>>, batch |-> <<>>]}
    ELSE {[raised |-> FALSE, slots |-> s,
           batch |-> [i \in 1..batch_size |-> mem.memory[s[i]]]] :
              s \in [1..batch_size -> 1..Len(mem.memory)]}

Sample(mem, batch_size) ==
    IF batch_size < 0 \/ batch_size > Len(mem.memory)
    THEN {[raised |-> TRUE, slots |-> <<>>, batch |-> <<>>]}
    ELSE {[raised |-> FALSE, slots |-> s,
           batch |-> [i \in 1..batch_size |-> mem.memory[s[i]]]] :
              s \in DistinctSlots(Len(mem.memory), batch_size)}

(***************************************************************************)
(* The initial values of the script's globals (lines 141-163).             *)
(***************************************************************************)
Unset == "unset"

InitLoop ==
    /\ pc = "episode"
    /\ i_episode = 0
    /\ t = 0
    /\ state = Unset
    /\ action = Unset
    /\ reward = Unset
    /\ next_state = Unset
    /\ lives = Unset
    /\ Done = Unset
    /\ done = Unset
    /\ steps_done = 0
    /\ policy_net = 0
    /\ target_net = policy_net
    /\ optimizer = 0
    /\ episode_durations = <<>>
    /\ checkpoints = {}
    /\ plots = {}
    /\ error = None
    /\ pushedInEpisode = 0
    /\ terminalInEpisode = 0

(***************************************************************************)
(* SpecMem: the ReplayMemory class under arbitrary calls.                  *)
(***************************************************************************)
PushArgs ==
    {Transition(Screen, a, ns, Reward) : a \in 0..(NUM_ACTIONS - 1), ns \in {Screen, None}}

InitMem ==
    /\ \E capacity \in 1..MaxCap : memory = ReplayMemory(capacity)
    /\ pushed = <<>>
    /\ sampled = 0
    /\ result = [batch_size |-> 0, out |-> [raised |-> FALSE, slots |-> <<>>, batch |-> <<>>]]
    /\ InitLoop

MemPush(tr) ==
    /\ Len(pushed) < MaxPushes
    /\ memory' = Push(memory, tr)
    /\ pushed' = Append(pushed, tr)
    /\ UNCHANGED <<sampled, result, loopVars, netVars, outVars, countVars>>

MemSample(batch_size) ==
    /\ sampled < MaxSamples
    /\ \E out \in Sample(memory, batch_size) :
          result' = [batch_size |-> batch_size, out |-> out]
    /\ sampled' = sampled + 1
    /\ UNCHANGED <<memory, pushed, loopVars, netVars, outVars, countVars>>

NextMem ==
    \/ \E tr \in PushArgs : MemPush(tr)
    \/ \E batch_size \in -1..(MaxCap + 1) : MemSample(batch_size)

SpecMem == InitMem /\ [][NextMem]_vars

(***************************************************************************)
(* select_action (lines 151-161).  The threshold is computed in            *)
(* hundredths; exp(-n / EPS_DECAY) is the reciprocal of the degree-4       *)
(* Taylor polynomial of exp(n / EPS_DECAY), rounded down to a hundredth.   *)
(***************************************************************************)
ExpNeg(n) ==
    LET D == EPS_DECAY
    IN  (100 * 24 * D * D * D * D)
          \div (24 * D * D * D * D + 24 * n * D * D * D + 12 * n * n * D * D
                  + 4 * n * n * n * D + n * n * n * n)

EpsThreshold(n) == EPS_END + ((EPS_START - EPS_END) * ExpNeg(n)) \div 100

\* random.random() lies in [0, 1): the draws that matter, in hundredths.
RandomDraws == {0, EPS_END, 50, EPS_START, 99}

\* policy_net(state): one Q-value per action (the head of line 102).
QValues == {<<0, 0>>, <<0, 1>>, <<1, 0>>}

\* .max(1)[1]: the index of the largest Q-value.
Greedy(q) == IF q[2] > q[1] THEN 1 ELSE 0

SelectAction ==
    /\ pc = "select"
    /\ \E sample \in RandomDraws, q \in QValues, r \in 0..(NUM_ACTIONS - 1) :
          action' = IF sample > EpsThreshold(steps_done) THEN Greedy(q) ELSE r
    /\ steps_done' = steps_done + 1
    /\ pc' = "env"
    /\ UNCHANGED <<memVars, i_episode, t, state, reward, next_state, lives, Done, done,
                   policy_net, target_net, optimizer, outVars, countVars>>

(***************************************************************************)
(* The training loop (lines 232-296).                                      *)
(***************************************************************************)
Init ==
    /\ memory = ReplayMemory(MEMORY_CAPACITY)
    /\ pushed = <<>>
    /\ sampled = 0
    /\ result = [batch_size |-> 0, out |-> [raised |-> FALSE, slots |-> <<>>, batch |-> <<>>]]
    /\ InitLoop

\* BeginEpisode that restarts the exploration schedule with each episode.
BeginEpisodeResetsSteps ==
    /\ pc = "episode"
    /\ state' = Screen
    /\ t' = 0
    /\ steps_done' = 0
    /\ pushedInEpisode' = 0
    /\ terminalInEpisode' = 0
    /\ pc' = "select"
    /\ UNCHANGED <<memVars, i_episode, action, reward, next_state, lives, Done, done,
                   policy_net, target_net, optimizer, outVars>>

\* lines 235-240 and the t = 0 of count()
BeginEpisode ==
    /\ pc = "episode"
    /\ state' = Screen
    /\ t' = 0
    /\ pushedInEpisode' = 0
    /\ terminalInEpisode' = 0
    /\ pc' = "select"
    /\ UNCHANGED <<memVars, i_episode, action, reward, next_state, lives, Done, done,
                   netVars, outVars>>

\* What the last env.step of an iteration reports: the lives left and Done,
\* which the emulator sets when no life is left.
Observations == {[lives |-> l, Done |-> (l = 0)] : l \in {0, START_LIVES - 1, START_LIVES}}

\* lines 256-262
IsDone(l, d) == (IF l > LIVES_ALIVE THEN FALSE ELSE TRUE) \/ d

\* lines 245-271
StepEnv ==
    /\ pc = "env"
    /\ \E obs \in Observations :
          /\ t + 1 >= MaxT => IsDone(obs.lives, obs.Done)
          /\ reward' = Reward
          /\ lives' = obs.lives
          /\ Done' = obs.Done
          /\ done' = IsDone(obs.lives, obs.Done)
          /\ next_state' = IF ~IsDone(obs.lives, obs.Done) THEN Screen ELSE None
    /\ pc' = "push"
    /\ UNCHANGED <<memVars, i_episode, t, state, action, netVars, outVars, countVars>>

\* lines 274-277
StoreTransition ==
    /\ pc = "push"
    /\ memory' = Push(memory, Transition(state, action, next_state, reward))
    /\ state' = next_state
    /\ pushedInEpisode' = pushedInEpisode + 1
    /\ terminalInEpisode' = terminalInEpisode + (IF next_state = None THEN 1 ELSE 0)
    /\ pc' = "optimize"
    /\ UNCHANGED <<pushed, sampled, result, i_episode, t, action, reward, next_state,
                   lives, Done, done, netVars, outVars>>

\* The size guard off by one.
TooFewTransitionsOffByOne(mem) == MemLen(mem) < BATCH_SIZE - 1

\* line 192
TooFewTransitions(mem) == MemLen(mem) < BATCH_SIZE

\* lines 202-203: the next states torch.cat is given
NonFinalNextStates(batch) ==
    SelectSeq([i \in 1..Len(batch) |-> batch[i].next_state], LAMBDA s : s # None)

\* line 204: the states torch.cat is given
StateBatch(batch) == [i \in 1..Len(batch) |-> batch[i].state]

\* torch.cat raises on an empty list and on a list holding None
CatRaises(tensors) ==
    IF tensors = <<>> THEN "RuntimeError"
    ELSE IF \E i \in 1..Len(tensors) : tensors[i] = None THEN "TypeError"
    ELSE None

\* lines 194-226, given the outcome of memory.sample
UpdateStep(out) ==
    IF out.raised
    THEN /\ error' = "ValueError"
         /\ pc' = "crashed"
         /\ UNCHANGED <<policy_net, optimizer>>
    ELSE IF CatRaises(NonFinalNextStates(out.batch)) # None
    THEN /\ error' = CatRaises(NonFinalNextStates(out.batch))
         /\ pc' = "crashed"
         /\ UNCHANGED <<policy_net, optimizer>>
    ELSE IF CatRaises(StateBatch(out.batch)) # None
    THEN /\ error' = CatRaises(StateBatch(out.batch))
         /\ pc' = "crashed"
         /\ UNCHANGED <<policy_net, optimizer>>
    ELSE /\ policy_net' = policy_net + 1
         /\ optimizer' = optimizer + 1
         /\ pc' = "check_done"
         /\ UNCHANGED error

\* line 280: optimize_model (lines 191-226)
OptimizeModel ==
    /\ pc = "optimize"
    /\ IF TooFewTransitions(memory)
       THEN /\ pc' = "check_done"
            /\ UNCHANGED <<sampled, policy_net, optimizer, error>>
       ELSE /\ sampled' = sampled + 1
            /\ \E out \in Sample(memory, BATCH_SIZE) : UpdateStep(out)
    /\ UNCHANGED <<memory, pushed, result, i_episode, t, state, action, reward, next_state,
                   lives, Done, done, steps_done, target_net, episode_durations,
                   checkpoints, plots, countVars>>

\* torch.save and plt.savefig replace a file of the same name
SaveFile(files, name, data) ==
    {f \in files : f.name # name} \cup {[name |-> name, data |-> data]}

\* lines 165-185: the file plot_durations writes
PlotDurations(durations, files) ==
    IF Len(durations) % PLOT_EVERY = 0
    THEN files \cup {"Duration_" \o ToString(Len(durations)) \o ".png"}
    ELSE files

\* EndStep without the break: the loop goes on after a terminal step.
EndStepNoBreak ==
    /\ pc = "check_done"
    /\ IF done
       THEN /\ episode_durations' = Append(episode_durations, t + 1)
            /\ plots' = PlotDurations(episode_durations', plots)
       ELSE UNCHANGED <<episode_durations, plots>>
    /\ IF done /\ t + 1 >= MaxT
       THEN pc' = "target_update" /\ UNCHANGED t
       ELSE pc' = "select" /\ t' = t + 1
    /\ UNCHANGED <<memVars, i_episode, state, action, reward, next_state, lives, Done, done,
                   netVars, checkpoints, error, countVars>>

\* lines 281-284, and the next t of count()
EndStep ==
    /\ pc = "check_done"
    /\ IF done
       THEN /\ episode_durations' = Append(episode_durations, t + 1)
            /\ plots' = PlotDurations(episode_durations', plots)
            /\ pc' = "target_update"
            /\ UNCHANGED t
       ELSE /\ t' = t + 1
            /\ pc' = "select"
            /\ UNCHANGED <<episode_durations, plots>>
    /\ UNCHANGED <<memVars, i_episode, state, action, reward, next_state, lives, Done, done,
                   netVars, checkpoints, error, countVars>>

\* UpdateTarget without the schedule: a copy after every episode.
UpdateTargetEveryEpisode ==
    /\ pc = "target_update"
    /\ target_net' = policy_net
    /\ pc' = "checkpoint"
    /\ UNCHANGED <<memVars, i_episode, t, state, action, reward, next_state, lives, Done,
                   done, steps_done, policy_net, optimizer, outVars, countVars>>

\* lines 286-287
UpdateTarget ==
    /\ pc = "target_update"
    /\ target_net' = IF i_episode % TARGET_UPDATE = 0 THEN policy_net ELSE target_net
    /\ pc' = "checkpoint"
    /\ UNCHANGED <<memVars, i_episode, t, state, action, reward, next_state, lives, Done,
                   done, steps_done, policy_net, optimizer, outVars, countVars>>

\* SaveCheckpoint that counts episodes from one.
SaveCheckpointCountsFromOne ==
    /\ pc = "checkpoint"
    /\ checkpoints' =
          IF (i_episode + 1) % SAVE_EVERY = 0
          THEN SaveFile(SaveFile(checkpoints,
                                 "policy_net_" \o ToString(i_episode + 1) \o ".pth", policy_net),
                        "target_net_" \o ToString(i_episode + 1) \o ".pth", target_net)
          ELSE checkpoints
    /\ IF i_episode + 1 < num_episodes
       THEN i_episode' = i_episode + 1 /\ pc' = "episode"
       ELSE i_episode' = i_episode /\ pc' = "complete"
    /\ UNCHANGED <<memVars, t, state, action, reward, next_state, lives, Done, done,
                   netVars, episode_durations, plots, error, countVars>>

\* lines 289-291, and the next i_episode of range(num_episodes)
SaveCheckpoint ==
    /\ pc = "checkpoint"
    /\ checkpoints' =
          IF i_episode % SAVE_EVERY = 0
          THEN SaveFile(SaveFile(checkpoints,
                                 "policy_net_" \o ToString(i_episode) \o ".pth", policy_net),
                        "target_net_" \o ToString(i_episode) \o ".pth", target_net)
          ELSE checkpoints
    /\ IF i_episode + 1 < num_episodes
       THEN i_episode' = i_episode + 1 /\ pc' = "episode"
       ELSE i_episode' = i_episode /\ pc' = "complete"
    /\ UNCHANGED <<memVars, t, state, action, reward, next_state, lives, Done, done,
                   netVars, episode_durations, plots, error, countVars>>

Next ==
    \/ BeginEpisode
    \/ SelectAction
    \/ StepEnv
    \/ StoreTransition
    \/ OptimizeModel
    \/ EndStep
    \/ UpdateTarget
    \/ SaveCheckpoint

Spec == Init /\ [][Next]_vars

(***************************************************************************)
(* Properties of ReplayMemory, checked under SpecMem.                      *)
(***************************************************************************)

\* C1: after any sequence of push and sample calls the buffer holds at most
\* capacity transitions, and exactly min(n, capacity) of them, n being the
\* number of push calls made so far.
C1_LenIsMinOfPushesAndCapacity ==
    /\ MemLen(memory) <= memory.capacity
    /\ MemLen(memory) = Min(Len(pushed), memory.capacity)

C1_Witness ==
    /\ Len(pushed) > memory.capacity
    /\ sampled > 0
    /\ MemLen(memory) = memory.capacity

\* C2: after n pushes the buffer holds exactly the last min(n, capacity)
\* pushed transitions, each in the slot its push wrote, position is
\* n mod capacity, and once n >= capacity that is the slot of the oldest
\* transition still held (the one the next push overwrites).
C2_HoldsLastPushedInRingOrder ==
    LET n == Len(pushed)
        C == memory.capacity
        held == Min(n, C)
    IN  /\ memory.position = n % C
        /\ MemLen(memory) = held
        /\ \A j \in 0..(held - 1) :
              memory.memory[((n - 1 - j) % C) + 1] = pushed[n - j]
        /\ n >= C => memory.memory[memory.position + 1] = pushed[n - C + 1]

C2_Witness ==
    /\ memory.capacity >= 2
    /\ Len(pushed) >= memory.capacity + 2
    /\ pushed[Len(pushed)] # pushed[Len(pushed) - memory.capacity]

\* C3: a sample call whose batch_size exceeds the number of stored
\* transitions raises, and leaves the buffer contents and position unchanged.
C3_SampleTooLargeRaises ==
    [][(sampled' # sampled /\ result'.batch_size > MemLen(memory))
          => (result'.out.raised /\ memory' = memory)]_vars

C3_Witness ==
    /\ sampled > 0
    /\ MemLen(memory) > 0
    /\ result.batch_size > MemLen(memory)
    /\ result.out.raised

\* C4: a sample call with batch_size <= len(memory) returns batch_size
\* transitions drawn from pairwise distinct slots, each the transition stored
\* in its slot, and leaves the buffer contents, length and position unchanged.
C4_SampleDistinctSlots ==
    [][(sampled' # sampled /\ result'.batch_size \in 0..MemLen(memory))
          => LET out == result'.out
                 k == result'.batch_size
             IN  /\ ~out.raised
                 /\ Len(out.batch) = k
                 /\ Len(out.slots) = k
                 /\ \A i \in 1..k : out.slots[i] \in 1..MemLen(memory)
                 /\ \A i, j \in 1..k : i # j => out.slots[i] # out.slots[j]
                 /\ \A i \in 1..k : out.batch[i] = memory.memory[out.slots[i]]
                 /\ memory' = memory]_vars

C4_Witness ==
    /\ sampled > 0
    /\ ~result.out.raised
    /\ result.batch_size = 2
    /\ MemLen(memory) = 2
    /\ result.out.batch[1] # result.out.batch[2]

(***************************************************************************)
(* Properties of the script, checked under Spec.                           *)
(***************************************************************************)

C6_CheckpointOnScheduleOnly ==
    [][IF pc = "checkpoint" /\ i_episode % SAVE_EVERY = 0
       THEN /\ [name |-> "policy_net_" \o ToString(i_episode) \o ".pth",
                data |-> policy_net] \in checkpoints'
            /\ [name |-> "target_net_" \o ToString(i_episode) \o ".pth",
                data |-> target_net] \in checkpoints'
            /\ checkpoints \subseteq checkpoints'
            /\ Cardinality(checkpoints') = Cardinality(checkpoints) + 2
       ELSE checkpoints' = checkpoints]_vars

C6_Witness ==
    /\ pc = "complete"
    /\ Cardinality(checkpoints) = 4
    /\ \E f \in checkpoints :
          f.name = "target_net_" \o ToString(SAVE_EVERY) \o ".pth"

\* C7: steps_done grows by exactly one on every select_action call and is
\* changed by nothing else, so the threshold never grows from one call to
\* the next; it starts at EPS_START and stays at or above EPS_END; the
\* action selected is 0 or 1.
C7_ThresholdDecays ==
    /\ steps_done = 0
    /\ EpsThreshold(steps_done) = EPS_START
    /\ [][/\ steps_done' = (IF pc = "select" THEN steps_done + 1 ELSE steps_done)
          /\ EpsThreshold(steps_done') <= EpsThreshold(steps_done)
          /\ EpsThreshold(steps_done') >= EPS_END
          /\ pc = "select" => action' \in {0, 1}]_vars

C7_Witness ==
    /\ i_episode >= 1
    /\ steps_done >= 3
    /\ EpsThreshold(steps_done) < EpsThreshold(steps_done - 1)
    /\ action = 1

\* C8: while the buffer holds fewer than BATCH_SIZE transitions,
\* optimize_model returns without sampling and without changing the policy
\* network, the optimizer, the target network or the buffer; sample is only
\* called with BATCH_SIZE <= len(memory), and its error never ends the script.
C8_NoSampleBelowBatchSize ==
    [][/\ (pc = "optimize" /\ MemLen(memory) < BATCH_SIZE)
             => /\ sampled' = sampled
                /\ policy_net' = policy_net
                /\ optimizer' = optimizer
                /\ target_net' = target_net
                /\ memory' = memory
                /\ error' = None
       /\ sampled' # sampled => BATCH_SIZE <= MemLen(memory)
       /\ error' # "ValueError"]_vars

C8_Witness ==
    /\ pc = "check_done"
    /\ MemLen(memory) > 0
    /\ MemLen(memory) < BATCH_SIZE
    /\ sampled = 0

\* C9: every transition pushed has a state other than None; its next_state
\* is None exactly when the step ended the episode (lives at 4 or fewer, or
\* game over); an episode pushes at most one terminal transition, after
\* which it pushes nothing; every completed episode has exactly one entry in
\* episode_durations, equal to the number of transitions it pushed.
LastPushed == memory.memory[((memory.position + memory.capacity - 1) % memory.capacity) + 1]

EpisodeEnded == pc \in {"target_update", "checkpoint", "complete"}

C9_TransitionsAndDurations ==
    /\ \A i \in 1..MemLen(memory) : memory.memory[i].state # None
    /\ pc = "push" => state # None
    /\ pc \in {"optimize", "check_done"}
          => (LastPushed.next_state = None <=> (lives <= LIVES_ALIVE \/ Done))
    /\ terminalInEpisode <= 1
    /\ (terminalInEpisode = 1 /\ pc # "episode")
          => (pc \notin {"select", "env", "push"} /\ LastPushed.next_state = None)
    /\ Len(episode_durations) = i_episode + (IF EpisodeEnded THEN 1 ELSE 0)
    /\ EpisodeEnded
          => /\ terminalInEpisode = 1
             /\ episode_durations[Len(episode_durations)] = pushedInEpisode

C9_Witness ==
    /\ pc = "target_update"
    /\ Len(episode_durations) >= 2
    /\ episode_durations[Len(episode_durations)] >= 2
    /\ MemLen(memory) = memory.capacity

\* C10: whenever optimize_model samples a mini-batch, the batch holds a
\* transition whose next_state is not None, so torch.cat is never given an
\* empty list and the update never raises.
C10_UpdateNeverRaises == error # "RuntimeError"

=============================================================================
